---------------------------- MODULE Spec2Model ----------------------------
(***************************************************************************)
(* A model of two_line_fit (src/find_regime_change.py, lines 49-70): the   *)
(* brute-force search for the regime change of a two-column data set.      *)
(*                                                                         *)
(* The data are integer valued.  Every real number the program handles is  *)
(* kept exactly: a slope or an intercept is a fraction of integers, a      *)
(* standard error is the square root of a fraction, and the two special    *)
(* floating point values the program meets (nan and inf) are values of     *)
(* their own, compared the way IEEE-754 compares them.  Rounding of the    *)
(* finite values is not modelled.                                          *)
(***************************************************************************)
EXTENDS Integers, Sequences, FiniteSets, TLC

(***************************************************************************)
(* d is the data set, an n x 2 array; build says what the installed        *)
(* linregress does in the two cases in which releases of the library       *)
(* differ; edge is the .05 of line 57.  iL, iH, i and z are the locals of  *)
(* two_line_fit, result is what it returns (<<>> before it returns) and    *)
(* err the exception that left it.  calls records the slices linregress    *)
(* was called on.                                                          *)
(***************************************************************************)
VARIABLES d, build, edge, pc, iL, iH, i, z, result, err, calls

vars == <<d, build, edge, pc, iL, iH, i, z, result, err, calls>>

(***************************************************************************)
(* Exact arithmetic.  TLC's integers are 32 bits wide and the sums of      *)
(* squares of a 100-point data set are not, so a natural number is a       *)
(* sequence of limbs in base Base, least significant first, without        *)
(* leading zero limbs; a signed number is a sign and a magnitude.          *)
(***************************************************************************)
Base == 1000

Max(a, b) == IF a >= b THEN a ELSE b

Abs(a) == IF a >= 0 THEN a ELSE 0 - a

RECURSIVE BigOf(_)
BigOf(n) == IF n = 0 THEN <<>> ELSE <<n % Base>> \o BigOf(n \div Base)

MaxOf(S) == CHOOSE k \in S : \A m \in S : m <= k

\* TLC evaluates an operator's argument each time the body names it.  The
\* operators below name each value once: The({e(v) : v \in {x}}) is e(x) with
\* x evaluated a single time.
The(S) == CHOOSE r \in S : TRUE

\* The sequence with the elements of the function f on 1..n.
Tuple(f) == The({SubSeq(v, 1, Len(v)) : v \in {f}})

\* No recursion on the length of a number below: TLC's stack is short.
Norm(s) ==
    The({SubSeq(v, 1, MaxOf({0} \cup {k \in 1..Len(v) : v[k] # 0})) : v \in {s}})

Limb(s, k) == IF k >= 1 /\ k <= Len(s) THEN s[k] ELSE 0

\* One round of carries: each column keeps its last limb and takes what the
\* column below it hands up.  Four rounds bring columns below 2^31 to 0..Base.
Pass(cols) ==
    The({Tuple([k \in 1..(Len(c) + 1) |->
                   (Limb(c, k) % Base) + (Limb(c, k - 1) \div Base)]) : c \in {cols}})

\* With columns in 0..Base, position k takes a carry of 1 when a column below
\* it is Base and those in between are Base - 1.
CarryIn(cols, k) ==
    \E j \in 1..(k - 1) :
        /\ cols[j] = Base
        /\ \A m \in (j + 1)..(k - 1) : cols[m] = Base - 1

Ripple(cols) ==
    The({Tuple([k \in 1..(Len(c) + 1) |->
                   (Limb(c, k) + (IF CarryIn(c, k) THEN 1 ELSE 0)) % Base]) : c \in {cols}})

\* The number whose limbs, before carries, are cols (each in 0 .. 2^31 - 1).
Carry(cols) == Ripple(Pass(Pass(Pass(Pass(Tuple(cols))))))

BAdd(a, b) ==
    The({Norm(Carry([k \in 1..Max(Len(x), Len(y)) |-> Limb(x, k) + Limb(y, k)])) :
            x \in {a}, y \in {b}})

\* a - b for a >= b: each column is lifted by Base - 1 (and the first by Base),
\* which the carry out of the top gives back.
BSub(a, b) ==
    The({Norm(SubSeq(Carry([k \in 1..Len(x) |->
                               Limb(x, k) - Limb(y, k)
                                   + (IF k = 1 THEN Base ELSE Base - 1)]), 1, Len(x))) :
            x \in {a}, y \in {b}})

\* The sum of f[lo], ..., f[hi], by halves.
RECURSIVE SumOver(_, _, _)
SumOver(f, lo, hi) ==
    IF lo > hi THEN 0
    ELSE IF lo = hi THEN f[lo]
    ELSE The({SumOver(f, l, m) + SumOver(f, m + 1, h) :
                 l \in {lo}, h \in {hi}, m \in {(lo + hi) \div 2}})

\* Column k of the product: the sum of a[j] * b[k - j + 1].
ColSum(a, b, k) ==
    The({SumOver([j \in lo..hi |-> a[j] * b[k - j + 1]], lo, hi) :
            lo \in {Max(1, k - Len(b) + 1)}, hi \in {IF k < Len(a) THEN k ELSE Len(a)}})

BMul(a, b) ==
    The({IF x = <<>> \/ y = <<>> THEN <<>>
         ELSE Norm(Carry([k \in 1..(Len(x) + Len(y) - 1) |-> ColSum(x, y, k)])) :
            x \in {a}, y \in {b}})

\* -1, 0 or 1 as a < b, a = b or a > b: the highest limb that differs decides.
BCmp(a, b) ==
    The({IF Len(x) < Len(y) THEN -1
         ELSE IF Len(x) > Len(y) THEN 1
         ELSE LET D == {k \in 1..Len(x) : x[k] # y[k]}
              IN  IF D = {} THEN 0
                  ELSE IF x[MaxOf(D)] < y[MaxOf(D)] THEN -1 ELSE 1 :
            x \in {a}, y \in {b}})

\* Signed numbers.
Z(n) == [neg |-> n < 0, mag |-> BigOf(Abs(n))]

ZNeg(a) == The({[neg |-> (~x.neg) /\ x.mag # <<>>, mag |-> x.mag] : x \in {a}})

ZAdd(a, b) ==
    The({IF x.neg = y.neg THEN [neg |-> x.neg, mag |-> BAdd(x.mag, y.mag)]
         ELSE IF c = 0 THEN Z(0)
         ELSE IF c > 0 THEN [neg |-> x.neg, mag |-> BSub(x.mag, y.mag)]
         ELSE [neg |-> y.neg, mag |-> BSub(y.mag, x.mag)] :
            <<x, y, c>> \in {<<a, b, BCmp(a.mag, b.mag)>>}})

ZSub(a, b) == ZAdd(a, ZNeg(b))

ZMul(a, b) ==
    The({[neg |-> (x.neg # y.neg) /\ m # <<>>, mag |-> m] :
            <<x, y, m>> \in {<<a, b, BMul(a.mag, b.mag)>>}})

ZSign(a) == The({IF x.mag = <<>> THEN 0 ELSE IF x.neg THEN -1 ELSE 1 : x \in {a}})

ZCmp(a, b) == ZSign(ZSub(a, b))


(***************************************************************************)
(* Floating point values.  A fraction is num/den with den > 0.  A float is *)
(* nan, inf or a finite fraction; a standard error is nan, inf or the      *)
(* square root of the fraction sq.                                         *)
(***************************************************************************)
Frac(n, m) == [num |-> n, den |-> m]

FracOfInt(n) == Frac(Z(n), BigOf(1))

FracCmp(a, b) ==
    The({ZCmp(ZMul(x.num, [neg |-> FALSE, mag |-> y.den]),
              ZMul(y.num, [neg |-> FALSE, mag |-> x.den])) : x \in {a}, y \in {b}})

NaN == [kind |-> "nan"]

Inf == [kind |-> "inf"]

Fin(f) == [kind |-> "fin", val |-> f]

Root(f) == [kind |-> "fin", sq |-> f]

\* sqrt(u/4) + sqrt(v/4) < e/2 ... the second squaring of SurdLess: with
\* w = u + v - e^2, where u = 4ab, v = 4cf and e = c + f - a - b.
SurdLess2(e, u, v, w) ==
    \E w2 \in {ZMul(w, w)}, uv4 \in {ZMul(Z(4), ZMul(u, v))} :
        IF ZSign(e) > 0
        THEN \/ ZCmp(u, v) <= 0
             \/ ZSign(w) < 0
             \/ ZCmp(w2, uv4) < 0
        ELSE /\ ZCmp(v, u) > 0
             /\ ZSign(w) > 0
             /\ ZCmp(w2, uv4) > 0

\* sqrt(a) + sqrt(b) < sqrt(c) + sqrt(f) for integers a, b, c, f >= 0.
\* Squaring both sides: 2 sqrt(ab) < e + 2 sqrt(cf), and squaring again.
SurdLess(a, b, c, f) ==
    \E e \in {ZSub(ZAdd(c, f), ZAdd(a, b))},
       u \in {ZMul(Z(4), ZMul(a, b))},
       v \in {ZMul(Z(4), ZMul(c, f))} :
        \E w \in {ZSub(ZAdd(u, v), ZMul(e, e))} : SurdLess2(e, u, v, w)

\* sqrt(p) + sqrt(q) < sqrt(r) + sqrt(s) for fractions p, q, r, s >= 0: both
\* sides are multiplied by the root of the product of the four denominators.
RootSumLess(p, q, r, s) ==
    \E dp \in {[neg |-> FALSE, mag |-> p.den]}, dq \in {[neg |-> FALSE, mag |-> q.den]},
       dr \in {[neg |-> FALSE, mag |-> r.den]}, ds \in {[neg |-> FALSE, mag |-> s.den]} :
        SurdLess(ZMul(p.num, ZMul(dq, ZMul(dr, ds))),
                 ZMul(q.num, ZMul(dp, ZMul(dr, ds))),
                 ZMul(r.num, ZMul(dp, ZMul(dq, ds))),
                 ZMul(s.num, ZMul(dp, ZMul(dq, dr))))

\* x + y on two standard errors (line 68): a key is nan, inf or the sum of
\* the roots in terms.
Key1(x) ==
    IF x.kind = "fin" THEN [kind |-> "fin", terms |-> <<x.sq>>] ELSE x

KeySum(x, y) ==
    IF x.kind = "nan" \/ y.kind = "nan" THEN NaN
    ELSE IF x.kind = "inf" \/ y.kind = "inf" THEN Inf
    ELSE [kind |-> "fin", terms |-> <<x.sq, y.sq>>]

\* a < b on floats: false as soon as one of them is nan.
KeyLess(a, b) ==
    \E x \in {a}, y \in {b} :
        IF x.kind = "nan" \/ y.kind = "nan" THEN FALSE
        ELSE IF x.kind = "inf" THEN FALSE
        ELSE IF y.kind = "inf" THEN TRUE
        ELSE IF Len(x.terms) = 1
             THEN FracCmp(x.terms[1], y.terms[1]) < 0
             ELSE RootSumLess(x.terms[1], x.terms[2], y.terms[1], y.terms[2])

\* Python's min(seq, key): the first item is the best so far, and a later
\* item replaces it only when its key is < the best key.
\* PyMinOver is the best after the items lo .. hi, when best was the best
\* before them.  The scan is cut in halves, and the best of the first half is
\* a value (the member b of a one-element set) before the second half is
\* entered: this keeps TLC's evaluation shallow and does it once.
RECURSIVE PyMinOver(_, _, _, _)
PyMinOver(keys, lo, hi, best) ==
    IF lo > hi THEN best
    ELSE IF lo = hi THEN (IF KeyLess(keys[lo], keys[best]) THEN lo ELSE best)
    ELSE The({PyMinOver(keys, (lo + hi) \div 2 + 1, hi, b) :
                 b \in {PyMinOver(keys, lo, (lo + hi) \div 2, best)}})

PyMin(keys) == PyMinOver(keys, 2, Len(keys), 1)

(***************************************************************************)
(* ss.linregress (lines 63 and 64).  The argument is a k x 2 slice of the  *)
(* data.  linregress takes a slice of exactly two rows for the pair        *)
(* (x, y) of two-element vectors, and any other slice for k points.        *)
(***************************************************************************)
Xs(sl) ==
    IF Len(sl) = 2 THEN <<sl[1][1], sl[1][2]>> ELSE [k \in 1..Len(sl) |-> sl[k][1]]

Ys(sl) ==
    IF Len(sl) = 2 THEN <<sl[2][1], sl[2][2]>> ELSE [k \in 1..Len(sl) |-> sl[k][2]]

Sum(u) == SumOver(u, 1, Len(u))

Dot(u, v) == SumOver([k \in 1..Len(u) |-> u[k] * v[k]], 1, Len(u))

\* n^2 times the biased covariance of u and v (numpy.cov(x, y, bias=1)).
Cov(u, v) == Len(u) * Dot(u, v) - Sum(u) * Sum(v)

\* slope = r_num / ssxm, which is 0/0 when the x values do not vary.
Slope(xs, ys) ==
    The({IF sxx = 0 THEN NaN ELSE Fin(Frac(Z(sxy), BigOf(sxx))) :
            sxx \in {Cov(xs, xs)}, sxy \in {Cov(xs, ys)}})

\* intercept = ymean - slope * xmean.
Intercept(xs, ys) ==
    The({IF sxx = 0 THEN NaN
         ELSE Fin(Frac(ZSub(ZMul(Z(Sum(ys)), Z(sxx)), ZMul(Z(sxy), Z(Sum(xs)))),
                       BMul(BigOf(Len(xs)), BigOf(sxx)))) :
            sxx \in {Cov(xs, xs)}, sxy \in {Cov(xs, ys)}})

\* sterrest = sqrt((1 - r*r) * ssym / ssxm / df) with df = n - 2, as the
\* floating point division gives it: x/0 is inf for x > 0 and nan for x = 0.
\* With two points r is 1, -1 or (no variance) 0 and the quotient is 0/0.
\* A build whose linregress treats two points apart (twoPoints = "zero")
\* returns 0.0 for them.
StdErr(xs, ys, twoPoints) ==
    The({IF Len(xs) = 2 /\ twoPoints = "zero" THEN Root(FracOfInt(0))
         ELSE IF sxx = 0 THEN (IF syy > 0 THEN Inf ELSE NaN)
         ELSE IF df <= 0 THEN NaN
         ELSE Root(Frac(ZSub(ZMul(Z(sxx), Z(syy)), ZMul(Z(sxy), Z(sxy))),
                        BMul(BMul(BigOf(sxx), BigOf(sxx)), BigOf(df)))) :
            sxx \in {Cov(xs, xs)}, syy \in {Cov(ys, ys)}, sxy \in {Cov(xs, ys)},
            df \in {Len(xs) - 2}})

\* An empty slice: the build either raises or computes on nothing.
Raises(sl, b) == Len(sl) = 0 /\ b.empty = "raise"

\* The r value and the p value (fields 2 and 3 of a row) are read nowhere
\* in two_line_fit and are left out.
linregress(sl, b) ==
    IF Len(sl) = 0
    THEN [slope |-> NaN, intercept |-> NaN, stderr |-> NaN]
    ELSE The({[slope     |-> Slope(xs, ys),
               intercept |-> Intercept(xs, ys),
               stderr    |-> StdErr(xs, ys, b.two)] :
                 xs \in {Tuple(Xs(sl))}, ys \in {Tuple(Ys(sl))}})

\* Tags the row with its place in z instead of the split index.
WithIndex_place(fit, k) ==
    [slope |-> fit.slope, intercept |-> fit.intercept, stderr |-> fit.stderr,
     i |-> k - iL]

\* linregress(...) + (i,)
WithIndex(fit, k) ==
    [slope |-> fit.slope, intercept |-> fit.intercept, stderr |-> fit.stderr, i |-> k]

\* One row of numpy.zeros((iH - iL, 2, 6)).
ZeroRow ==
    [slope |-> Fin(FracOfInt(0)), intercept |-> Fin(FracOfInt(0)),
     stderr |-> Root(FracOfInt(0)), i |-> 0]

(***************************************************************************)
(* two_line_fit.                                                           *)
(***************************************************************************)
\* .05 of line 57, as a fraction.
EdgeFraction == <<1, 20>>

\* Rounds up where int() truncates.
iLow_ceil(e, n) == (e[1] * n + e[2] - 1) \div e[2]

\* iL = int(.05 * len(d))
iLow(e, n) == (e[1] * n) \div e[2]

\* iH = len(d) - iL
iHigh(n, lo) == n - lo

\* d[i+1:] where the program takes d[i:].
Right_skip(data, k) == SubSeq(data, k + 2, Len(data))

\* d[:i]
Left(data, k) == SubSeq(data, 1, k)

\* d[i:]
Right(data, k) == SubSeq(data, k + 1, Len(data))

(***************************************************************************)
(* The data sets of the model: every data set of at most MaxN points with  *)
(* coordinates in Vals, and some longer ones made of two exact lines.      *)
(***************************************************************************)
MaxN == 3

Vals == 0..2

SmallData == UNION {[1..n -> Vals \X Vals] : n \in 0..MaxN}

\* n points with x = 0 .. n-1, y = a1*x + b1 before index b and a2*x + b2 from it.
TwoLine(n, b, a1, b1, a2, b2) ==
    [k \in 1..n |-> <<k - 1, IF k - 1 < b THEN a1 * (k - 1) + b1
                                          ELSE a2 * (k - 1) + b2>>]

Recovery == TwoLine(100, 50, 2, 1, -3, 260)

\* Ten points, below the 20 at which the margin is one point.
TenPoints == TwoLine(10, 5, 1, 0, -1, 10)

LongData ==
    {Recovery, TwoLine(20, 10, 1, 0, -1, 20), TwoLine(21, 7, 0, 3, 2, 0),
     TwoLine(40, 20, 1, 0, -1, 40), TwoLine(41, 30, 1, 5, 3, 1),
     TwoLine(60, 30, 1, 0, -1, 60)}

\* What the installed linregress does with an empty slice and with two points.
Builds == [empty : {"raise", "nan"}, two : {"zero", "float"}]

Start ==
    /\ pc = "start"
    /\ iL = 0
    /\ iH = 0
    /\ i = 0
    /\ z = <<>>
    /\ result = <<>>
    /\ err = ""
    /\ calls = {}

Init ==
    /\ d \in SmallData \cup {TenPoints} \cup LongData
    /\ build \in Builds
    /\ edge = EdgeFraction
    /\ Start

\* Lines 57-61: the bounds and the array of results.  numpy.zeros raises on
\* a negative dimension.
Enter ==
    /\ pc = "start"
    /\ iL' = iLow(edge, Len(d))
    /\ iH' = iHigh(Len(d), iL')
    /\ IF iH' - iL' < 0
       THEN /\ pc' = "raised"
            /\ err' = "zeros"
            /\ UNCHANGED <<i, z>>
       ELSE /\ pc' = "loop"
            /\ i' = iL'
            /\ z' = [k \in 1..(iH' - iL') |-> <<ZeroRow, ZeroRow>>]
            /\ err' = err
    /\ UNCHANGED <<d, build, edge, result, calls>>

Call(side, sl) == [i |-> i, side |-> side, len |-> Len(sl)]

\* Lines 62-64: one pass of the loop.  An exception of linregress leaves
\* two_line_fit at once.
FitCandidate ==
    /\ pc = "loop"
    /\ i < iH
    /\ IF Raises(Left(d, i), build)
       THEN /\ pc' = "raised"
            /\ err' = "linregress"
            /\ calls' = calls \cup {Call("left", Left(d, i))}
            /\ UNCHANGED <<i, z>>
       ELSE IF Raises(Right(d, i), build)
       THEN /\ pc' = "raised"
            /\ err' = "linregress"
            /\ calls' = calls \cup {Call("left", Left(d, i)), Call("right", Right(d, i))}
            /\ UNCHANGED <<i, z>>
       ELSE /\ z' = [z EXCEPT ![i - iL + 1] =
                        <<WithIndex(linregress(Left(d, i), build), i),
                          WithIndex(linregress(Right(d, i), build), i)>>]
            /\ i' = i + 1
            /\ calls' = calls \cup {Call("left", Left(d, i)), Call("right", Right(d, i))}
            /\ UNCHANGED <<pc, err>>
    /\ UNCHANGED <<d, build, edge, iL, iH, result>>

\* Hands back rows of zeros where min raises on an empty sequence.
Reduce_default ==
    /\ pc = "loop"
    /\ i >= iH
    /\ pc' = "returned"
    /\ err' = err
    /\ result' =
         IF Len(z) = 0
         THEN [leftMin |-> ZeroRow, rightMin |-> ZeroRow, bothMin |-> <<ZeroRow, ZeroRow>>]
         ELSE [leftMin  |-> z[PyMin([k \in 1..Len(z) |-> Key1(z[k][1].stderr)])][1],
               rightMin |-> z[PyMin([k \in 1..Len(z) |-> Key1(z[k][2].stderr)])][2],
               bothMin  |-> z[PyMin([k \in 1..Len(z) |->
                                         KeySum(z[k][1].stderr, z[k][2].stderr)])]]
    /\ UNCHANGED <<d, build, edge, iL, iH, i, z, calls>>

\* Lines 66-70: the three minima.  min raises on an empty sequence.
Reduce ==
    /\ pc = "loop"
    /\ i >= iH
    /\ IF Len(z) = 0
       THEN /\ pc' = "raised"
            /\ err' = "min"
            /\ result' = result
       ELSE /\ pc' = "returned"
            /\ err' = err
            /\ result' =
                 [leftMin  |-> z[PyMin([k \in 1..Len(z) |-> Key1(z[k][1].stderr)])][1],
                  rightMin |-> z[PyMin([k \in 1..Len(z) |-> Key1(z[k][2].stderr)])][2],
                  bothMin  |-> z[PyMin([k \in 1..Len(z) |->
                                            KeySum(z[k][1].stderr, z[k][2].stderr)])]]
    /\ UNCHANGED <<d, build, edge, iL, iH, i, z, calls>>

Next == Enter \/ FitCandidate \/ Reduce

Spec == Init /\ [][Next]_vars

\* The data sets of at least 20 points only: no slice is empty.
InitLong ==
    /\ d \in LongData
    /\ build \in Builds
    /\ edge = EdgeFraction
    /\ Start

SpecLong == InitLong /\ [][Next]_vars

\* search(dataset, edgeFraction): the margin of line 57 as a parameter, at
\* the program's .05 and at .5.
InitEdge ==
    /\ d \in SmallData \cup {TenPoints} \cup LongData
    /\ build \in Builds
    /\ edge \in {EdgeFraction, <<1, 2>>}
    /\ Start

SpecEdge == InitEdge /\ [][Next]_vars

(***************************************************************************)
(* The properties.  The bounds of the candidate range are written out      *)
(* here, not taken from iLow and iHigh.                                    *)
(***************************************************************************)
Final == pc \in {"returned", "raised"}

LowBound == Len(d) \div 20

HighBound == Len(d) - (Len(d) \div 20)

Range == LowBound..(HighBound - 1)

FittedAt(side) == {c.i : c \in {x \in calls : x.side = side}}

LeftKeys == [k \in 1..Len(z) |-> Key1(z[k][1].stderr)]

RightKeys == [k \in 1..Len(z) |-> Key1(z[k][2].stderr)]

JointKeys == [k \in 1..Len(z) |-> KeySum(z[k][1].stderr, z[k][2].stderr)]

\* keys[k] is the least of the keys that are numbers, and the first to be so.
\* A key that is nan is no standard error: it is least of nothing but nans.
IsFirstLeast(keys, k) ==
    \A j \in 1..Len(keys) :
        keys[j].kind # "nan" =>
            /\ keys[k].kind # "nan"
            /\ ~KeyLess(keys[j], keys[k])
            /\ j < k => KeyLess(keys[k], keys[j])

IsZero(s) == s.kind = "fin" /\ ZSign(s.sq.num) = 0

IsInt(x, n) == x.kind = "fin" /\ FracCmp(x.val, FracOfInt(n)) = 0

\* A slice that cannot support a line fit.
Degenerate(sl) == Len(sl) < 2 \/ \A j, k \in 1..Len(sl) : sl[j][1] = sl[k][1]

Sound == {j \in Range : ~Degenerate(Left(d, j)) /\ ~Degenerate(Right(d, j))}

\* C1 (as claimed): linregress is called on no slice of an index outside
\* floor(n/20) <= i < n - floor(n/20), and once two_line_fit has ended it has
\* been called on the left and on the right slice of every index inside.
C1_CandidateRange ==
    /\ \A c \in calls : c.i \in Range
    /\ Final =>
         /\ FittedAt("left") = Range
         /\ FittedAt("right") = Range

\* C2 (as claimed): the best-joint result is the pair of rows of one
\* candidate, both tagged with its split index, whose sum of standard errors
\* is least, and the first such candidate.
C2_JointIsFirstLeast ==
    pc = "returned" =>
        \E k \in 1..Len(z) :
            /\ result.bothMin = z[k]
            /\ z[k][1].i = iL + k - 1
            /\ z[k][2].i = iL + k - 1
            /\ IsFirstLeast(JointKeys, k)

\* C3 (as claimed): each best-alone result is the row of its side of a
\* candidate whose standard error on that side is least, the first such,
\* tagged with the split index of that candidate.
C3_SideIsFirstLeast ==
    pc = "returned" =>
        /\ \E k \in 1..Len(z) :
              /\ result.leftMin = z[k][1]
              /\ result.leftMin.i = iL + k - 1
              /\ IsFirstLeast(LeftKeys, k)
        /\ \E k \in 1..Len(z) :
              /\ result.rightMin = z[k][2]
              /\ result.rightMin.i = iL + k - 1
              /\ IsFirstLeast(RightKeys, k)

\* C4: the split indices of the three results returned are in
\* floor(n/20) <= i < n - floor(n/20).
C4_ReturnedInRange ==
    pc = "returned" =>
        /\ result.leftMin.i \in Range
        /\ result.rightMin.i \in Range
        /\ result.bothMin[1].i \in Range
        /\ result.bothMin[2].i \in Range

C4_Witness ==
    /\ pc = "returned"
    /\ Len(d) = 41
    /\ result.rightMin.i = 30
    /\ result.bothMin[1].i # result.leftMin.i

\* C5 (as claimed): a candidate with a slice of fewer than 2 points or of
\* constant x is skipped: the failure of a fit leaves two_line_fit only when
\* no candidate is sound, and otherwise the three results are returned and
\* come from sound candidates.
C5_SkipsDegenerate ==
    /\ (pc = "raised" /\ err = "linregress") => Sound = {}
    /\ (Final /\ Sound # {}) => pc = "returned"
    /\ pc = "returned" =>
         /\ Sound # {}
         /\ result.leftMin.i \in Sound
         /\ result.rightMin.i \in Sound
         /\ result.bothMin[1].i \in Sound

\* C6 (as claimed): every slice a line is fitted to has at least 2 points.
C6_SlicesAtLeastTwo == \A c \in calls : c.len >= 2

\* C7: when the candidate range is empty, two_line_fit calls no fit, returns
\* nothing and ends in the exception of the empty range.
C7_EmptyRangeFails ==
    LowBound >= HighBound =>
        /\ pc # "returned"
        /\ result = <<>>
        /\ calls = {}
        /\ Final => (pc = "raised" /\ err \in {"min", "zeros"})

C7_Witness == Len(d) = 0 /\ pc = "raised" /\ err = "min" /\ result = <<>>

\* C8 (as claimed): on 3 points two_line_fit ends in the exception of the
\* empty range, not in a result and not in an exception of a fit.
C8_ThreePointsEmptyRange ==
    (Len(d) = 3 /\ Final) => (pc = "raised" /\ err = "min")

C10_ExactRecovery ==
    (d = Recovery /\ pc = "returned") =>
        /\ result.bothMin[1].i = 50
        /\ result.bothMin[2].i = 50
        /\ IsInt(result.bothMin[1].slope, 2)
        /\ IsInt(result.bothMin[1].intercept, 1)
        /\ IsInt(result.bothMin[2].slope, -3)
        /\ IsInt(result.bothMin[2].intercept, 260)
        /\ IsZero(result.bothMin[1].stderr)
        /\ IsZero(result.bothMin[2].stderr)
        /\ {z[k][1].i : k \in 1..Len(z)} = 5..94
        /\ \A k \in 1..Len(z) :
              z[k][1].i # 50 =>
                  /\ JointKeys[k].kind = "fin"
                  /\ ~(IsZero(z[k][1].stderr) /\ IsZero(z[k][2].stderr))

C10_Witness ==
    /\ d = Recovery
    /\ pc = "returned"
    /\ result.bothMin[1].i = 50
    /\ IsZero(result.bothMin[1].stderr)

=============================================================================
